---- MODULE Spec2Model ----
(***************************************************************************)
(* Model of scripts/release-1.23-update/migrate-alertrule.go: the alert    *)
(* rule migration of kubegems 1.23 (export of the legacy rules, the two    *)
(* phases of the alert-name normalisation, the re-sync of the rules).      *)
(*                                                                         *)
(* Strings are sequences of characters, a character is a one-letter TLA+   *)
(* string; Wide is one character of three UTF-8 bytes.  Files are either   *)
(* a decoded YAML document (the alert name map) or a sequence of bytes     *)
(* (the change record, a CSV file).                                        *)
(***************************************************************************)
EXTENDS Integers, Sequences, FiniteSets, TLC

\* ------------------------------------------------------------- bounds
\* The most rows the alert_rules table holds in the name normalisation.
MaxRules == 2
\* The most rows the table holds when the rules are re-synced.
MaxSyncRules == 3
\* The most legacy rules one export converts.
MaxExport == 3
\* The most label pairs of a generator.
MaxLabels == 2

\* --------------------------------------------------------- characters
UpperSeq ==
  << "A","B","C","D","E","F","G","H","I","J","K","L","M",
     "N","O","P","Q","R","S","T","U","V","W","X","Y","Z" >>
LowerSeq ==
  << "a","b","c","d","e","f","g","h","i","j","k","l","m",
     "n","o","p","q","r","s","t","u","v","w","x","y","z" >>
DigitSeq == << "0","1","2","3","4","5","6","7","8","9" >>

Range(s) == { s[i] : i \in DOMAIN s }

\* U+8B66, a character of three bytes in UTF-8.
Wide == "U+8B66"
WideBytes == << "xE8", "xAD", "xA6" >>
\* "no character": the zero rune of strcase's prev and curr.
NoChar == "NUL"

isUpper(ch) == ch \in Range(UpperSeq)
isLower(ch) == ch \in Range(LowerSeq)
isSpace(ch) == ch \in { " ", "\t", "\n", "\r" }
isDelimiter(ch) == ch = "-" \/ ch = "_" \/ isSpace(ch)
toLower(ch) ==
  IF isUpper(ch)
  THEN LowerSeq[CHOOSE i \in DOMAIN UpperSeq : UpperSeq[i] = ch]
  ELSE ch

\* The bytes of a string: length(name) of the SQL is Len(Bytes(name)),
\* char_length(name) is Len(name).
RECURSIVE Bytes(_)
Bytes(s) ==
  IF s = << >> THEN << >>
  ELSE (IF Head(s) = Wide THEN WideBytes ELSE << Head(s) >>) \o Bytes(Tail(s))

\* strings.Contains(s, ch) for a one-character ch, scanning from the left.
RECURSIVE Contains(_, _)
Contains(s, ch) ==
  IF s = << >> THEN FALSE
  ELSE IF Head(s) = ch THEN TRUE
  ELSE Contains(Tail(s), ch)

\* strings.TrimSpace
RECURSIVE TrimLeft(_)
TrimLeft(s) ==
  IF s # << >> /\ isSpace(Head(s)) THEN TrimLeft(Tail(s)) ELSE s
RECURSIVE TrimRight(_)
TrimRight(s) ==
  IF s # << >> /\ isSpace(s[Len(s)])
  THEN TrimRight(SubSeq(s, 1, Len(s) - 1))
  ELSE s
TrimSpace(s) == TrimRight(TrimLeft(s))

\* strcase.KebabCase: delimiterCase(s, '-', false).  KebabAt is what the
\* loop appends while curr is the i-th character (the last character is
\* appended after the loop).
KebabAt(s, i) ==
  LET curr == s[i]
      prev == IF i > 1 THEN s[i - 1] ELSE NoChar
      next == IF i < Len(s) THEN s[i + 1] ELSE NoChar
  IN  IF i < Len(s)
      THEN IF isDelimiter(curr)
           THEN IF ~isDelimiter(prev) THEN << "-" >> ELSE << >>
           ELSE IF isUpper(curr)
           THEN (IF isLower(prev) \/ (isUpper(prev) /\ isLower(next))
                 THEN << "-" >> ELSE << >>) \o << toLower(curr) >>
           ELSE << toLower(curr) >>
      ELSE (IF isUpper(curr) /\ isLower(prev) /\ prev # NoChar
            THEN << "-" >> ELSE << >>) \o << toLower(curr) >>

RECURSIVE KebabFrom(_, _)
KebabFrom(s, i) ==
  IF i > Len(s) THEN << >> ELSE KebabAt(s, i) \o KebabFrom(s, i + 1)

KebabCase(name) == KebabFrom(TrimSpace(name), 1)

\* models.IsValidAlertRuleName: the canonical-name grammar, a slug: not
\* empty, only lower-case letters, digits and hyphens.
IsValidAlertRuleName(name) ==
  /\ name # << >>
  /\ \A i \in DOMAIN name :
       isLower(name[i]) \/ name[i] \in Range(DigitSeq) \/ name[i] = "-"


\* ------------------------------------------------------- input pools
Clusters == { "c1" }

NameUpperSpace == << "A", " ", "b" >>
NameLowerSpace == << "a", " ", "b" >>
NameSlug == << "a", "b" >>
NameWide == << Wide >>
\* The names the rules of the table start with.
NamePool == { NameUpperSpace, NameLowerSpace, NameSlug, NameWide }
\* What an operator writes as the new name of an entry of the map file.
OverrideValues == { << "x" >> }

\* A row of slt.alert_rules, as far as the migration reads or writes it.
Rule(cluster, namespace, name) ==
  [ Cluster |-> cluster, Namespace |-> namespace, Name |-> name ]
\* The rows the table starts with: every name in namespace n1, and one
\* more rule in n2.
RulePool ==
  { Rule("c1", "n1", name) : name \in NamePool }
  \cup { Rule("c1", "n2", NameSlug) }

FullName(r) == << r.Cluster, r.Namespace, r.Name >>

Injective(s) == \A i, j \in DOMAIN s : i # j => s[i] # s[j]

SeqsUpTo(S, n) == UNION { [1..k -> S] : k \in 0..n }

\* ------------------------------------------------------------- state
VARIABLES
  db,           \* the rows of slt.alert_rules, in primary-key order
  nameMapFile,  \* alertNameMapFile
  recordFile,   \* alertNameChangeRecordFile, its bytes
  lastOp,       \* the last step of the normalisation that returned
  prevA,        \* the step before lastOp was a successful phase A
  filePrev,     \* nameMapFile before the last phase A
  bPc,          \* updateAlertRuleNameInDB: "idle" or in its "loop"
  bIdx,         \* ... the index of the rule the loop is at
  bMap,         \* ... alertNameMap as decoded
  bRules,       \* ... alertrules as found
  records,      \* ... records
  updates,      \* ... the updates issued: << index, newname >>
  bErr          \* ... what the last run returned

normLocal ==
  << nameMapFile, recordFile, lastOp, prevA, filePrev,
     bPc, bIdx, bMap, bRules, records, updates, bErr >>
normVars == << db, normLocal >>

\* ------------------------------------------------- the name map file
EmptyMap == [ n \in {} |-> << >> ]
FileAbsent == [ kind |-> "absent", doc |-> EmptyMap ]
FileEmpty == [ kind |-> "empty", doc |-> EmptyMap ]
FileGarbage == [ kind |-> "garbage", doc |-> EmptyMap ]
YamlFile(m) == [ kind |-> "yaml", doc |-> m ]
NoFile == [ kind |-> "none", doc |-> EmptyMap ]

\* os.OpenFile(alertNameMapFile, os.O_CREATE|os.O_RDWR, 0644)
OpenCreate(f) == IF f.kind = "absent" THEN FileEmpty ELSE f

\* yaml.NewDecoder(f).Decode(alertNameMap): io.EOF on a file of no
\* document, an error on what is no YAML mapping of strings.
Decode(f) ==
  CASE f.kind = "yaml" -> [ err |-> "nil", map |-> f.doc ]
    [] f.kind = "empty" -> [ err |-> "EOF", map |-> EmptyMap ]
    [] OTHER -> [ err |-> "yaml", map |-> EmptyMap ]

\* yaml.Marshal(alertNameMap) written by os.WriteFile
Marshal(m) == YamlFile(m)

\* SELECT name FROM slt.alert_rules
\*   where length(name) != char_length(name) or name like "% %"
IsOldName(r) == Len(Bytes(r.Name)) # Len(r.Name) \/ Contains(r.Name, " ")
SelectOldNames(rows) ==
  LET sel == SelectSeq(rows, IsOldName)
  IN  [ i \in DOMAIN sel |-> sel[i].Name ]

\* A faulty variant: only the names added by this run are kept.
RECURSIVE AddNewNamesOnlyNew(_, _)
AddNewNamesOnlyNew(m, oldnames) ==
  IF oldnames = << >> THEN EmptyMap
  ELSE LET rest == AddNewNamesOnlyNew(m, Tail(oldnames))
       IN  IF Head(oldnames) \in DOMAIN m THEN rest
           ELSE (Head(oldnames) :> << >>) @@ rest

\* A faulty variant: every discovered name is set to "", present or not.
RECURSIVE AddNewNamesOverwrite(_, _)
AddNewNamesOverwrite(m, oldnames) ==
  IF oldnames = << >> THEN m
  ELSE AddNewNamesOverwrite((Head(oldnames) :> << >>) @@ m, Tail(oldnames))

\* for _, v := range oldnames { if _, ok := alertNameMap[v]; !ok { ... } }
RECURSIVE AddNewNames(_, _)
AddNewNames(m, oldnames) ==
  IF oldnames = << >> THEN m
  ELSE AddNewNames(
         IF Head(oldnames) \in DOMAIN m THEN m
         ELSE m @@ (Head(oldnames) :> << >>),
         Tail(oldnames))

ResetB ==
  /\ bPc' = "idle"
  /\ bIdx' = 0
  /\ bMap' = EmptyMap
  /\ bRules' = << >>
  /\ records' = << >>
  /\ updates' = << >>
  /\ bErr' = "nil"

\* updateAlertNameMapInFile; scan is whether the SELECT succeeds.
UpdateAlertNameMapInFile ==
  /\ bPc = "idle"
  /\ \E scan \in { "nil", "err" } :
       LET f == OpenCreate(nameMapFile)
           dec == Decode(f)
       IN  IF dec.err \notin { "nil", "EOF" } \/ scan = "err"
           THEN /\ nameMapFile' = f
                /\ lastOp' = "Aerr"
                /\ filePrev' = NoFile
           ELSE /\ nameMapFile' = Marshal(AddNewNames(dec.map, SelectOldNames(db)))
                /\ lastOp' = "A"
                /\ filePrev' = nameMapFile
  /\ prevA' = (lastOp = "A")
  /\ ResetB
  /\ UNCHANGED << db, recordFile >>

\* The operator edits the map file between two runs: one entry is set.
OperatorEdit ==
  /\ bPc = "idle"
  /\ nameMapFile.kind \in { "absent", "empty", "yaml" }
  /\ \E k \in NamePool, v \in OverrideValues :
       /\ ~(k \in DOMAIN nameMapFile.doc /\ nameMapFile.doc[k] = v)
       /\ nameMapFile' = YamlFile((k :> v) @@ nameMapFile.doc)
  /\ lastOp' = "edit"
  /\ prevA' = FALSE
  /\ filePrev' = NoFile
  /\ ResetB
  /\ UNCHANGED << db, recordFile >>


\* ---------------------------------------------- the change record file
RECURSIVE Concat(_)
Concat(ss) == IF ss = << >> THEN << >> ELSE Head(ss) \o Concat(Tail(ss))

\* file.Write([]byte{0xEF, 0xBB, 0xBF})
BOM == << "xEF", "xBB", "xBF" >>

HeaderRow ==
  << << "o","l","d","n","a","m","e" >>,
     << "n","e","w","n","a","m","e" >>,
     << "c","l","u","s","t","e","r" >>,
     << "n","a","m","e","s","p","a","c","e" >>,
     << "t","e","n","a","n","t","_","n","a","m","e" >>,
     << "p","r","o","j","e","c","t","_","n","a","m","e" >>,
     << "e","n","v","i","r","o","n","m","e","n","t","_","n","a","m","e" >> >>

\* encoding/csv, Writer.fieldNeedsQuotes with Comma = ','
FieldNeedsQuotes(field) ==
  /\ field # << >>
  /\ \/ field = << "\\", "." >>
     \/ \E i \in DOMAIN field : field[i] \in { ",", "\"", "\r", "\n" }
     \/ isSpace(field[1])

\* encoding/csv, the quoted form of a field: quotes are doubled.
RECURSIVE QuoteBody(_)
QuoteBody(field) ==
  IF field = << >> THEN << >>
  ELSE (IF Head(field) = "\"" THEN << "\"", "\"" >> ELSE << Head(field) >>)
       \o QuoteBody(Tail(field))

CsvField(field) ==
  IF FieldNeedsQuotes(field)
  THEN << "\"" >> \o Bytes(QuoteBody(field)) \o << "\"" >>
  ELSE Bytes(field)

\* encoding/csv, Writer.Write of one record
CsvRow(row) ==
  Concat([ i \in DOMAIN row |->
             (IF i > 1 THEN << "," >> ELSE << >>) \o CsvField(row[i]) ])
  \o << "\n" >>

\* encoding/csv, Writer.WriteAll
CsvRows(rows) == Concat([ i \in DOMAIN rows |-> CsvRow(rows[i]) ])

\* What file.Write and the csv writer send to the file, in order.
RecordBytes(rows) == BOM \o CsvRow(HeaderRow) \o CsvRows(rows)

\* os.OpenFile(alertNameChangeRecordFile, os.O_CREATE|os.O_RDWR, 0644) and
\* the writes that follow: from offset 0, over what the file holds; what
\* lies beyond the bytes written stays.
WriteFromStart(old, new) ==
  new \o (IF Len(old) > Len(new) THEN SubSeq(old, Len(new) + 1, Len(old))
          ELSE << >>)

\* db.ClusterNS2EnvMap(): the environments, keyed by "cluster/namespace".
\* Namespace n2 of cluster c1 belongs to no environment.
EnvKey(cluster, namespace) == << cluster, "/", namespace >>
ZeroEnvInfo ==
  [ ClusterName |-> << >>, Namespace |-> << >>, TenantName |-> << >>,
    ProjectName |-> << >>, EnvironmentName |-> << >> ]
ClusterNS2EnvMap ==
  EnvKey("c1", "n1") :>
    [ ClusterName |-> << "c", "1" >>, Namespace |-> << "n", "1" >>,
      TenantName |-> << "t" >>, ProjectName |-> << "p" >>,
      EnvironmentName |-> << "e" >> ]
\* envinfo[fmt.Sprintf("%s/%s", v.Cluster, v.Namespace)]
EnvInfoOf(envinfo, v) ==
  IF EnvKey(v.Cluster, v.Namespace) \in DOMAIN envinfo
  THEN envinfo[EnvKey(v.Cluster, v.Namespace)]
  ELSE ZeroEnvInfo

\* ------------------------------------------- updateAlertRuleNameInDB
\* newname, ok := alertNameMap[v.Name]; if !ok { newname = KebabCase }
NewNameOf(m, name) ==
  IF name \in DOMAIN m THEN m[name] ELSE KebabCase(name)

\* db.DB().Model(v).Update("name", newname): the row of v's primary key
\* gets the name; the table accepts any name.
DbUpdateName(rows, i, newname) == [ rows EXCEPT ![i].Name = newname ]

RecordOf(v, newname) ==
  LET info == EnvInfoOf(ClusterNS2EnvMap, v)
  IN  << v.Name, newname, info.ClusterName, info.Namespace,
         info.TenantName, info.ProjectName, info.EnvironmentName >>

\* The function up to the loop; setup is which of Find and
\* ClusterNS2EnvMap fails, if any.
UpdateNameStart ==
  /\ bPc = "idle"
  /\ \E setup \in { "nil", "find", "env" } :
       LET f == OpenCreate(nameMapFile)
           dec == Decode(f)
           err == IF dec.err # "nil" THEN "decode" ELSE setup
       IN  /\ nameMapFile' = f
           /\ bErr' = err
           /\ IF err = "nil"
              THEN /\ bPc' = "loop"
                   /\ bIdx' = 1
                   /\ bMap' = dec.map
                   /\ bRules' = db
                   /\ lastOp' = "Brun"
              ELSE /\ bPc' = "idle"
                   /\ bIdx' = 0
                   /\ bMap' = EmptyMap
                   /\ bRules' = << >>
                   /\ lastOp' = "Berr"
  /\ records' = << >>
  /\ updates' = << >>
  /\ prevA' = FALSE
  /\ filePrev' = NoFile
  /\ UNCHANGED << db, recordFile >>

\* A faulty variant: the record is appended only when the rule is renamed.
UpdateNameStepRecordInIf ==
  /\ bPc = "loop"
  /\ bIdx <= Len(bRules)
  /\ LET v == bRules[bIdx]
         newname == NewNameOf(bMap, v.Name)
     IN  IF ~IsValidAlertRuleName(newname)
         THEN /\ bErr' = "invalid"
              /\ bPc' = "idle"
              /\ lastOp' = "Berr"
              /\ UNCHANGED << db, bIdx, records, updates >>
         ELSE /\ db' = IF v.Name # newname
                       THEN DbUpdateName(db, bIdx, newname) ELSE db
              /\ records' = IF v.Name # newname
                            THEN Append(records, RecordOf(v, newname))
                            ELSE records
              /\ updates' = IF v.Name # newname
                            THEN Append(updates, << bIdx, newname >>)
                            ELSE updates
              /\ bIdx' = bIdx + 1
              /\ UNCHANGED << bErr, bPc, lastOp >>
  /\ UNCHANGED << nameMapFile, recordFile, prevA, filePrev, bMap, bRules >>

\* One turn of the loop over alertrules; upd is whether the UPDATE,
\* when one is issued, succeeds.
UpdateNameStep ==
  /\ bPc = "loop"
  /\ bIdx <= Len(bRules)
  /\ \E upd \in { "nil", "err" } :
       LET v == bRules[bIdx]
           newname == NewNameOf(bMap, v.Name)
       IN  IF ~IsValidAlertRuleName(newname)
           THEN /\ upd = "nil"
                /\ bErr' = "invalid"
                /\ bPc' = "idle"
                /\ lastOp' = "Berr"
                /\ UNCHANGED << db, bIdx, records, updates >>
           ELSE /\ records' = Append(records, RecordOf(v, newname))
                /\ IF v.Name # newname
                   THEN /\ updates' = Append(updates, << bIdx, newname >>)
                        /\ IF upd = "nil"
                           THEN /\ db' = DbUpdateName(db, bIdx, newname)
                                /\ bIdx' = bIdx + 1
                                /\ UNCHANGED << bErr, bPc, lastOp >>
                           ELSE /\ bErr' = "update"
                                /\ bPc' = "idle"
                                /\ lastOp' = "Berr"
                                /\ UNCHANGED << db, bIdx >>
                   ELSE /\ upd = "nil"
                        /\ bIdx' = bIdx + 1
                        /\ UNCHANGED << db, updates, bErr, bPc, lastOp >>
  /\ UNCHANGED << nameMapFile, recordFile, prevA, filePrev, bMap, bRules >>

\* After the loop: the change record file is written (the sleep of five
\* seconds changes nothing) and the function returns nil.
UpdateNameFinish ==
  /\ bPc = "loop"
  /\ bIdx > Len(bRules)
  /\ recordFile' = WriteFromStart(recordFile, RecordBytes(records))
  /\ bPc' = "idle"
  /\ lastOp' = "B"
  /\ UNCHANGED << db, nameMapFile, prevA, filePrev, bIdx, bMap, bRules,
                  records, updates, bErr >>


\* ------------------------------------------------ the rule converter
\* promql.MatchType
MatchEqual == "MatchEqual"
MatchRegexp == "MatchRegexp"

\* A faulty variant: every matcher is an equality matcher.
matchTypeAlwaysEqual(value) == MatchEqual

\* func matchType(value string) promql.MatchType
matchType(value) ==
  IF Contains(value, "|") THEN MatchRegexp ELSE MatchEqual

LabelKeys == { "k1", "k2", "k3" }
LabelValues == { << >>, << "a" >>, << "a", "|", "b" >> }
\* The LabelPairs maps of at most MaxLabels pairs.
LabelPairMaps ==
  UNION { [ ks -> LabelValues ] :
            ks \in { x \in SUBSET LabelKeys : Cardinality(x) <= MaxLabels } }

\* The orders in which a range over the map may visit its keys.
Orders(m) ==
  { o \in [ 1..Cardinality(DOMAIN m) -> DOMAIN m ] : Injective(o) }

Nil == [ nil |-> TRUE ]
StatusNormal == "StatusNormal"
StatusLost == "StatusLost"

LegacyLevels ==
  << [ CompareOp |-> ">", CompareValue |-> "80", Severity |-> "error" ],
     [ CompareOp |-> ">", CompareValue |-> "90", Severity |-> "critical" ] >>
LegacyReceivers ==
  << [ AlertChannel |-> [ ID |-> 1 ], Interval |-> "10m" ],
     [ AlertChannel |-> [ ID |-> 2 ], Interval |-> "1h" ] >>

\* observe.MonitorAlertRule, with and without a PromqlGenerator
MonitorRule(ns, name, gen, status) ==
  [ Kind |-> "monitor", Namespace |-> ns, Name |-> name,
    Expr |-> "expr", Message |-> "msg", For |-> "1m",
    InhibitLabels |-> << "pod" >>, IsOpen |-> TRUE,
    AlertLevels |-> LegacyLevels, Receivers |-> LegacyReceivers,
    Generator |-> gen, ChannelStatus |-> status ]
MonitorGenerator(pairs) ==
  [ Scope |-> "system", Resource |-> "container", Rule |-> "cpu",
    Unit |-> "percent", LabelPairs |-> pairs ]

\* observe.LoggingAlertRule, with and without a LogqlGenerator
LoggingRule(ns, name, gen, status) ==
  [ Kind |-> "logging", Namespace |-> ns, Name |-> name,
    Expr |-> "expr", Message |-> "msg", For |-> "1m",
    InhibitLabels |-> << "pod" >>, IsOpen |-> TRUE,
    AlertLevels |-> LegacyLevels, Receivers |-> LegacyReceivers,
    Generator |-> gen, ChannelStatus |-> status ]
LoggingGenerator(pairs) ==
  [ Duration |-> "1m", Match |-> "error", LabelPairs |-> pairs ]

MonitorGenerators == { Nil } \cup { MonitorGenerator(m) : m \in LabelPairMaps }
LoggingGenerators == { Nil } \cup { LoggingGenerator(m) : m \in LabelPairMaps }

LegacyPool ==
  { MonitorRule("n1", NameSlug, g, StatusNormal) :
      g \in MonitorGenerators }
  \cup
  { LoggingRule("n1", NameUpperSpace, g, StatusLost) :
      g \in LoggingGenerators }

ConvertLevels(levels) ==
  [ i \in DOMAIN levels |->
      [ CompareOp |-> levels[i].CompareOp,
        CompareValue |-> levels[i].CompareValue,
        Severity |-> levels[i].Severity ] ]
ConvertReceivers(recs) ==
  [ i \in DOMAIN recs |->
      [ AlertChannelID |-> recs[i].AlertChannel.ID,
        Interval |-> recs[i].Interval ] ]
\* for k, v := range LabelPairs { LabelMatchers = append(...) }, the
\* range visiting the keys in the order ord.
ConvertMatchers(pairs, ord) ==
  [ i \in DOMAIN ord |->
      [ Type |-> matchType(pairs[ord[i]]),
        Name |-> ord[i],
        Value |-> pairs[ord[i]] ] ]

\* func convertMonitorAlertRule(cluster, monitorRule); ord is the order
\* of the range over PromqlGenerator.LabelPairs.
convertMonitorAlertRule(cluster, monitorRule, ord) ==
  [ Cluster |-> cluster,
    Namespace |-> monitorRule.Namespace,
    Name |-> monitorRule.Name,
    AlertType |-> "monitor",
    Expr |-> monitorRule.Expr,
    Message |-> monitorRule.Message,
    For |-> monitorRule.For,
    InhibitLabels |-> monitorRule.InhibitLabels,
    IsOpen |-> monitorRule.IsOpen,
    AlertLevels |-> ConvertLevels(monitorRule.AlertLevels),
    Receivers |-> ConvertReceivers(monitorRule.Receivers),
    PromqlGenerator |->
      IF monitorRule.Generator = Nil THEN Nil
      ELSE [ Scope |-> monitorRule.Generator.Scope,
             Resource |-> monitorRule.Generator.Resource,
             Rule |-> monitorRule.Generator.Rule,
             Unit |-> monitorRule.Generator.Unit,
             LabelMatchers |->
               ConvertMatchers(monitorRule.Generator.LabelPairs, ord) ],
    LogqlGenerator |-> Nil ]

\* func convertLoggingAlertRule(cluster, loggingRule); ord as above.
convertLoggingAlertRule(cluster, loggingRule, ord) ==
  [ Cluster |-> cluster,
    Namespace |-> loggingRule.Namespace,
    Name |-> loggingRule.Name,
    AlertType |-> "logging",
    Expr |-> loggingRule.Expr,
    Message |-> loggingRule.Message,
    For |-> loggingRule.For,
    InhibitLabels |-> loggingRule.InhibitLabels,
    IsOpen |-> loggingRule.IsOpen,
    AlertLevels |-> ConvertLevels(loggingRule.AlertLevels),
    Receivers |-> ConvertReceivers(loggingRule.Receivers),
    PromqlGenerator |-> Nil,
    LogqlGenerator |->
      IF loggingRule.Generator = Nil THEN Nil
      ELSE [ Duration |-> loggingRule.Generator.Duration,
             Match |-> loggingRule.Generator.Match,
             LabelMatchers |->
               ConvertMatchers(loggingRule.Generator.LabelPairs, ord) ] ]

\* The orders a conversion of the rule may take (one, of no key, when
\* the rule has no generator).
OrdersOf(rule) ==
  IF rule.Generator = Nil THEN { << >> }
  ELSE Orders(rule.Generator.LabelPairs)

VARIABLES
  cIn,       \* the legacy rule that is converted
  cOut       \* the results of its conversions, in order

convVars == << cIn, cOut >>

\* How often the same rule is converted.
MaxConversions == 2

ConvertMonitor ==
  /\ cIn # Nil
  /\ cIn.Kind = "monitor"
  /\ Len(cOut) < MaxConversions
  /\ \E ord \in OrdersOf(cIn) :
       cOut' = Append(cOut, convertMonitorAlertRule("c1", cIn, ord))
  /\ UNCHANGED cIn

ConvertLogging ==
  /\ cIn # Nil
  /\ cIn.Kind = "logging"
  /\ Len(cOut) < MaxConversions
  /\ \E ord \in OrdersOf(cIn) :
       cOut' = Append(cOut, convertLoggingAlertRule("c1", cIn, ord))
  /\ UNCHANGED cIn


\* --------------------------------------------- exportOldAlertRulesToDB
\* The legacy rules the clusters hold when the export runs.
ExportPairs == ("k1" :> << "a" >>) @@ ("k2" :> << "a", "|", "b" >>)
ExportLegacyPool ==
  { MonitorRule("n1", NameSlug, MonitorGenerator(ExportPairs), StatusNormal),
    LoggingRule("n1", NameUpperSpace, Nil, StatusLost) }

VARIABLES
  ePc,         \* "idle", "list" (in ExecuteInEachCluster), "persist", "done"
  eRules,      \* alertrules
  eIdx,        \* the index of the rule the second loop is at
  eSkipped,    \* the indices whose SetReceivers failed
  eCreated,    \* the indices Create was called for
  eCreateErr,  \* the indices whose Create failed
  eRet         \* the error returned

expVars == << ePc, eRules, eIdx, eSkipped, eCreated, eCreateErr, eRet >>

ExportStart ==
  /\ ePc = "idle"
  /\ ePc' = "list"
  /\ UNCHANGED << db, eRules, eIdx, eSkipped, eCreated, eCreateErr, eRet >>

\* alertrules = append(alertrules, convertMonitorAlertRule(cli.Name(), v))
ExportConvertMonitor ==
  /\ ePc = "list"
  /\ Len(eRules) < MaxExport
  /\ \E cluster \in Clusters, v \in ExportLegacyPool :
       /\ v.Kind = "monitor"
       /\ \E ord \in OrdersOf(v) :
            eRules' = Append(eRules, convertMonitorAlertRule(cluster, v, ord))
  /\ UNCHANGED << db, ePc, eIdx, eSkipped, eCreated, eCreateErr, eRet >>

\* alertrules = append(alertrules, convertLoggingAlertRule(cli.Name(), v))
ExportConvertLogging ==
  /\ ePc = "list"
  /\ Len(eRules) < MaxExport
  /\ \E cluster \in Clusters, v \in ExportLegacyPool :
       /\ v.Kind = "logging"
       /\ \E ord \in OrdersOf(v) :
            eRules' = Append(eRules, convertLoggingAlertRule(cluster, v, ord))
  /\ UNCHANGED << db, ePc, eIdx, eSkipped, eCreated, eCreateErr, eRet >>

\* ExecuteInEachCluster returns; err is what it returns.
ExportListed ==
  /\ ePc = "list"
  /\ \E err \in { "nil", "err" } :
       IF err = "nil"
       THEN /\ ePc' = "persist"
            /\ eIdx' = 1
            /\ UNCHANGED eRet
       ELSE /\ ePc' = "done"
            /\ eRet' = "err"
            /\ UNCHANGED eIdx
  /\ UNCHANGED << db, eRules, eSkipped, eCreated, eCreateErr >>

\* A faulty variant: the first rule whose receivers cannot be set ends the loop.
ExportPersistStepAbort ==
  /\ ePc = "persist"
  /\ eIdx <= Len(eRules)
  /\ \E recv \in { "nil", "err" }, create \in { "nil", "err" } :
       IF recv = "err"
       THEN /\ create = "nil"
            /\ eSkipped' = Append(eSkipped, eIdx)
            /\ ePc' = "done"
            /\ eRet' = "nil"
            /\ UNCHANGED << db, eIdx, eCreated, eCreateErr >>
       ELSE /\ eCreated' = Append(eCreated, eIdx)
            /\ db' = IF create = "nil" THEN Append(db, eRules[eIdx]) ELSE db
            /\ eCreateErr' = IF create = "nil" THEN eCreateErr
                             ELSE Append(eCreateErr, eIdx)
            /\ eIdx' = eIdx + 1
            /\ UNCHANGED << ePc, eRet, eSkipped >>
  /\ UNCHANGED eRules

\* One turn of the loop over alertrules; recv is what SetReceivers
\* returns, create what Create returns.
ExportPersistStep ==
  /\ ePc = "persist"
  /\ eIdx <= Len(eRules)
  /\ \E recv \in { "nil", "err" }, create \in { "nil", "err" } :
       IF recv = "err"
       THEN /\ create = "nil"
            /\ eSkipped' = Append(eSkipped, eIdx)
            /\ UNCHANGED << db, eCreated, eCreateErr >>
       ELSE /\ eCreated' = Append(eCreated, eIdx)
            /\ db' = IF create = "nil" THEN Append(db, eRules[eIdx]) ELSE db
            /\ eCreateErr' = IF create = "nil" THEN eCreateErr
                             ELSE Append(eCreateErr, eIdx)
            /\ UNCHANGED eSkipped
  /\ eIdx' = eIdx + 1
  /\ UNCHANGED << ePc, eRules, eRet >>

\* return alertrules, nil
ExportFinish ==
  /\ ePc = "persist"
  /\ eIdx > Len(eRules)
  /\ ePc' = "done"
  /\ eRet' = "nil"
  /\ UNCHANGED << db, eRules, eIdx, eSkipped, eCreated, eCreateErr >>

\* ------------------------------------------------------ syncAlertRules
\* The rules of the table when the rules are re-synced.
SyncRulePool ==
  [ Cluster : { "c1", "c2" }, Namespace : { "n1" },
    Name : { << "a", "b" >>, << "x" >> } ]

\* cs.ClientOf(ctx, v.Cluster): the client and no error, or an error with
\* no client (a nil interface), or an error with a client.
ClientOfResults == { "ok", "errNilClient", "errWithClient" }

VARIABLES
  sPc,       \* "idle", "loop", "done", "panic"
  sRules,    \* alertrules
  sIdx,      \* the index of the rule the loop is at
  sFailed,   \* the indices whose ClientOf failed
  sSynced,   \* the indices SyncAlertRule was called for
  sRet       \* the error returned

syncVars == << sPc, sRules, sIdx, sFailed, sSynced, sRet >>

\* The function up to the loop; find is what Find returns.
SyncStart ==
  /\ sPc = "idle"
  /\ \E find \in { "nil", "err" } :
       IF find = "nil"
       THEN /\ sPc' = "loop"
            /\ sRules' = db
            /\ sIdx' = 1
            /\ UNCHANGED sRet
       ELSE /\ sPc' = "done"
            /\ sRet' = "err"
            /\ UNCHANGED << sRules, sIdx >>
  /\ UNCHANGED << db, sFailed, sSynced >>

\* One turn of the loop over alertrules; sync is what SyncAlertRule
\* returns.  log.Errorf("client of: %s failed", cli.Name()) calls Name
\* on the client ClientOf returned with its error: on a nil interface
\* that is a nil dereference, and the function panics.
SyncStep ==
  /\ sPc = "loop"
  /\ sIdx <= Len(sRules)
  /\ \E cli \in ClientOfResults, sync \in { "nil", "err" } :
       CASE cli = "ok" ->
              /\ sSynced' = Append(sSynced, sIdx)
              /\ sIdx' = sIdx + 1
              /\ UNCHANGED << sPc, sFailed >>
         [] cli = "errWithClient" ->
              /\ sync = "nil"
              /\ sFailed' = Append(sFailed, sIdx)
              /\ sIdx' = sIdx + 1
              /\ UNCHANGED << sPc, sSynced >>
         [] cli = "errNilClient" ->
              /\ sync = "nil"
              /\ sFailed' = Append(sFailed, sIdx)
              /\ sPc' = "panic"
              /\ UNCHANGED << sIdx, sSynced >>
  /\ UNCHANGED << db, sRules, sRet >>

\* return nil
SyncFinish ==
  /\ sPc = "loop"
  /\ sIdx > Len(sRules)
  /\ sPc' = "done"
  /\ sRet' = "nil"
  /\ UNCHANGED << db, sRules, sIdx, sFailed, sSynced >>

\* ------------------------------------------------------ specifications
vars == << normVars, expVars, syncVars, convVars >>

NormIdle ==
  /\ lastOp = "none"
  /\ prevA = FALSE
  /\ filePrev = NoFile
  /\ bPc = "idle"
  /\ bIdx = 0
  /\ bMap = EmptyMap
  /\ bRules = << >>
  /\ records = << >>
  /\ updates = << >>
  /\ bErr = "nil"
ExportIdle ==
  /\ ePc = "idle"
  /\ eRules = << >>
  /\ eIdx = 0
  /\ eSkipped = << >>
  /\ eCreated = << >>
  /\ eCreateErr = << >>
  /\ eRet = "nil"
SyncIdle ==
  /\ sPc = "idle"
  /\ sRules = << >>
  /\ sIdx = 0
  /\ sFailed = << >>
  /\ sSynced = << >>
  /\ sRet = "nil"
ConvertIdle ==
  /\ cIn = Nil
  /\ cOut = << >>

\* The name normalisation: a table of rules of distinct full names, a
\* map file left by an earlier run or by the operator, no change record.
Init ==
  /\ db \in { s \in SeqsUpTo(RulePool, MaxRules) : Injective(s) }
  /\ nameMapFile \in
       { FileAbsent, FileEmpty, FileGarbage, YamlFile(EmptyMap) }
  /\ recordFile = << >>
  /\ NormIdle /\ ExportIdle /\ SyncIdle /\ ConvertIdle

Next ==
  \/ UpdateAlertNameMapInFile /\ UNCHANGED << expVars, syncVars, convVars >>
  \/ OperatorEdit /\ UNCHANGED << expVars, syncVars, convVars >>
  \/ UpdateNameStart /\ UNCHANGED << expVars, syncVars, convVars >>
  \/ UpdateNameStep /\ UNCHANGED << expVars, syncVars, convVars >>
  \/ UpdateNameFinish /\ UNCHANGED << expVars, syncVars, convVars >>

Spec == Init /\ [][Next]_vars

\* The export: an empty table.
ExportRest == UNCHANGED << normLocal, syncVars, convVars >>
InitExport ==
  /\ db = << >>
  /\ nameMapFile = FileAbsent
  /\ recordFile = << >>
  /\ NormIdle /\ ExportIdle /\ SyncIdle /\ ConvertIdle

NextExport ==
  \/ ExportStart /\ ExportRest
  \/ ExportConvertMonitor /\ ExportRest
  \/ ExportConvertLogging /\ ExportRest
  \/ ExportListed /\ ExportRest
  \/ ExportPersistStep /\ ExportRest
  \/ ExportFinish /\ ExportRest

SpecExport == InitExport /\ [][NextExport]_vars

\* The re-sync: a table of rules of distinct full names.
InitSync ==
  /\ db \in { s \in SeqsUpTo(SyncRulePool, MaxSyncRules) : Injective(s) }
  /\ nameMapFile = FileAbsent
  /\ recordFile = << >>
  /\ NormIdle /\ ExportIdle /\ SyncIdle /\ ConvertIdle

NextSync ==
  \/ SyncStart /\ UNCHANGED << normLocal, expVars, convVars >>
  \/ SyncStep /\ UNCHANGED << normLocal, expVars, convVars >>
  \/ SyncFinish /\ UNCHANGED << normLocal, expVars, convVars >>

SpecSync == InitSync /\ [][NextSync]_vars

\* The conversion of one legacy rule, several times.
InitConvert ==
  /\ db = << >>
  /\ nameMapFile = FileAbsent
  /\ recordFile = << >>
  /\ NormIdle /\ ExportIdle /\ SyncIdle
  /\ cIn \in LegacyPool
  /\ cOut = << >>

NextConvert ==
  \/ ConvertMonitor /\ UNCHANGED << normVars, expVars, syncVars >>
  \/ ConvertLogging /\ UNCHANGED << normVars, expVars, syncVars >>

SpecConvert == InitConvert /\ [][NextConvert]_vars


\* ------------------------------------------------------------ claims
\* A run of updateAlertRuleNameInDB is in its loop or has returned from it.
InPhaseB == bPc = "loop" \/ (lastOp \in { "B", "Berr" } /\ Len(bRules) = Len(db))
\* The rules the loop has been through without returning an error.
Processed == IF bPc = "loop" \/ lastOp = "B" THEN 1..(bIdx - 1)
             ELSE IF bErr \in { "invalid", "update" } THEN 1..(bIdx - 1)
             ELSE {}
HasSpace(name) == \E i \in DOMAIN name : name[i] = " "
HasWide(name) == \E i \in DOMAIN name : name[i] = Wide
Prefix(s, n) == SubSeq(s, 1, n)

\* The new name the specification gives: the map's value when there is
\* one and it is not empty, the slug of the old name otherwise.
SpecNewName(m, name) ==
  IF name \in DOMAIN m /\ m[name] # << >> THEN m[name] ELSE KebabCase(name)

\* C1: in phase B every rule's new name is the map's value for its old
\* name when that value is not empty and the slug of the old name
\* otherwise: the rules the loop has been through are recorded and
\* persisted under that name, and the phase returns the validation error
\* only for a rule whose such name is invalid.
C1_NewNameIsOverrideOrSlug ==
  InPhaseB =>
    /\ \A i \in DOMAIN records :
         records[i][2] = SpecNewName(bMap, bRules[i].Name)
    /\ \A i \in Processed : db[i].Name = SpecNewName(bMap, bRules[i].Name)
    /\ bErr = "invalid" =>
         ~IsValidAlertRuleName(SpecNewName(bMap, bRules[bIdx].Name))

\* C2: phase B never persists a name that fails the grammar check, and
\* when it returns the validation error no rule's persisted name differs
\* from its name before the phase started.
C2_AbortLeavesNamesUnchanged ==
  /\ \A i \in DOMAIN updates : IsValidAlertRuleName(updates[i][2])
  /\ (InPhaseB /\ bErr = "invalid") =>
       \A i \in DOMAIN db : db[i].Name = bRules[i].Name

\* The map a file holds for phase A: none in a file that is absent or
\* empty.
MapOf(f) == IF f.kind = "yaml" THEN f.doc ELSE EmptyMap
NonCanonicalNames == { db[i].Name : i \in { j \in DOMAIN db :
                         HasSpace(db[j].Name) \/ HasWide(db[j].Name) } }

\* C3: after a successful phase A every key the map file held before is
\* still there with the same value, every name of a rule that holds a
\* space or a character of several bytes and was absent is there with an
\* empty value, and no other key is added.
C3_PhaseAMergesByUnion ==
  lastOp = "A" =>
    /\ nameMapFile.kind = "yaml"
    /\ \A k \in DOMAIN MapOf(filePrev) :
         k \in DOMAIN nameMapFile.doc /\ nameMapFile.doc[k] = MapOf(filePrev)[k]
    /\ \A k \in NonCanonicalNames \ DOMAIN MapOf(filePrev) :
         k \in DOMAIN nameMapFile.doc /\ nameMapFile.doc[k] = << >>
    /\ DOMAIN nameMapFile.doc = DOMAIN MapOf(filePrev) \cup NonCanonicalNames

\* A successful phase A kept an operator's value and added a name.
C3_Witness ==
  /\ lastOp = "A"
  /\ \E k \in DOMAIN MapOf(filePrev) :
       k \in NonCanonicalNames /\ MapOf(filePrev)[k] = << "x" >>
  /\ NonCanonicalNames \ DOMAIN MapOf(filePrev) # {}

\* C4: phase A run twice in a row, with no edit of the map file and no
\* change of the rules in between, leaves after the second run the map
\* file the first run left.
C4_PhaseAIdempotent ==
  (lastOp = "A" /\ prevA) => nameMapFile = filePrev

\* The second of two successful runs in a row, of a map of two names.
C4_Witness ==
  /\ lastOp = "A" /\ prevA
  /\ Cardinality(DOMAIN nameMapFile.doc) >= 2
  /\ \E k \in DOMAIN nameMapFile.doc : nameMapFile.doc[k] = << >>

C6_RecordFileIsExactlyThisRun ==
  lastOp = "B" => recordFile = RecordBytes(records)

\* C7: the re-sync never aborts: a rule whose client lookup fails is
\* skipped, SyncAlertRule is called once for every other rule, also
\* after a failing one, and the function returns nil.
C7_SyncNeverAborts ==
  /\ sPc # "panic"
  /\ sPc \in { "loop", "done" } /\ sRet = "nil" =>
       /\ Range(sFailed) \cup Range(sSynced) = 1..(sIdx - 1)
       /\ Range(sFailed) \cap Range(sSynced) = {}
       /\ Len(sFailed) + Len(sSynced) = sIdx - 1
  /\ sPc = "done" /\ sRet = "nil" => sIdx = Len(sRules) + 1

\* The rows Create stored: the rules it was called for and did not fail.
ExportStored ==
  LET ok == SelectSeq(eCreated, LAMBDA i : i \notin Range(eCreateErr))
  IN  [ n \in DOMAIN ok |-> eRules[ok[n]] ]

\* C8: in the export a rule whose SetReceivers fails is skipped and not
\* persisted, Create is called exactly once for every other rule, also
\* after a rule whose SetReceivers or Create failed, and the loop goes
\* through every rule.
C8_ExportSkipsAndContinues ==
  (ePc \in { "persist", "done" } /\ eRet = "nil") =>
    /\ Range(eSkipped) \cup Range(eCreated) = 1..(eIdx - 1)
    /\ Range(eSkipped) \cap Range(eCreated) = {}
    /\ Len(eSkipped) + Len(eCreated) = eIdx - 1
    /\ Range(eCreateErr) \subseteq Range(eCreated)
    /\ db = ExportStored
    /\ ePc = "done" => eIdx = Len(eRules) + 1

\* An export of three rules: the second was skipped, the first's Create
\* failed, the third was stored.
C8_Witness ==
  /\ ePc = "done" /\ eRet = "nil"
  /\ Len(eRules) = 3
  /\ eSkipped = << 2 >>
  /\ eCreated = << 1, 3 >>
  /\ eCreateErr = << 1 >>
  /\ db = << eRules[3] >>

\* The matchers of a converted rule, and those its legacy rule asks for.
MatchersOf(rule) ==
  IF rule.AlertType = "monitor" THEN rule.PromqlGenerator.LabelMatchers
  ELSE rule.LogqlGenerator.LabelMatchers
WantedMatchers(pairs) ==
  { [ Type |-> IF \E n \in DOMAIN pairs[k] : pairs[k][n] = "|"
               THEN MatchRegexp ELSE MatchEqual,
      Name |-> k,
      Value |-> pairs[k] ] : k \in DOMAIN pairs }

\* C9: a legacy rule with a generator converts to exactly one matcher
\* (name, value, type) per label pair, of the regular-expression type iff
\* the value holds "|" and of the equality type otherwise; two
\* conversions of the rule give the same set of matchers.
C9_MatchersPerLabelPair ==
  (cIn # Nil /\ cIn.Generator # Nil) =>
    /\ \A i \in DOMAIN cOut :
         /\ Range(MatchersOf(cOut[i])) = WantedMatchers(cIn.Generator.LabelPairs)
         /\ Len(MatchersOf(cOut[i])) = Cardinality(DOMAIN cIn.Generator.LabelPairs)
    /\ \A i, j \in DOMAIN cOut :
         Range(MatchersOf(cOut[i])) = Range(MatchersOf(cOut[j]))

\* Two conversions visited the label pairs in different orders, one
\* value with "|" and one without.
C9_Witness ==
  /\ cIn # Nil /\ cIn.Generator # Nil
  /\ Len(cOut) = 2
  /\ MatchersOf(cOut[1]) # MatchersOf(cOut[2])
  /\ \E m \in Range(MatchersOf(cOut[1])) : m.Type = MatchRegexp
  /\ \E m \in Range(MatchersOf(cOut[1])) : m.Type = MatchEqual

\* C10: when the rules have pairwise distinct (cluster, namespace, name)
\* before phase B, they have so in every state during and after it.
C10_FullNamesStayDistinct ==
  (InPhaseB /\ Injective([ i \in DOMAIN bRules |-> FullName(bRules[i]) ]))
    => Injective([ i \in DOMAIN db |-> FullName(db[i]) ])

====
